---- MODULE Spec2Model ----
(***************************************************************************)
(* Model of workers/cloud/modal_worker.py: the transcription job pipeline  *)
(* (transcribe, handle_error) and the output formatters (format_output,    *)
(* format_timestamp_srt).                                                  *)
(*                                                                         *)
(* Conventions                                                             *)
(*  - a Python str is a sequence of one-character strings;                 *)
(*  - an optional value (None or v) is <<>> or <<v>>;                      *)
(*  - a dict is a function whose DOMAIN is the set of keys present;        *)
(*  - a float number of seconds is [ms |-> n, fm |-> k]: ms is the value   *)
(*    in milliseconds and fm is what int((s % 1) * 1000) evaluates to in   *)
(*    IEEE-754 double arithmetic for that value.                           *)
(***************************************************************************)
EXTENDS Integers, Sequences, FiniteSets, TLC

\* Bounds of the model ------------------------------------------------------
NumInvocations == 2   \* invocation slots; Spec starts invocation 1 only
NumTmpNames == 2      \* names tempfile.NamedTemporaryFile can pick from
MaxElapsed == 2       \* number of elapsed-time samples
MaxSegs == 2          \* segments of a result given to format_output directly

Inv == 1..NumInvocations
TmpNames == 1..NumTmpNames

None == <<>>
Some(v) == <<v>>

\* ---------------------------------------------------------------------------
\* Strings
\* ---------------------------------------------------------------------------
UpperLetters ==
  <<"A","B","C","D","E","F","G","H","I","J","K","L","M",
    "N","O","P","Q","R","S","T","U","V","W","X","Y","Z">>

LowerLetters ==
  <<"a","b","c","d","e","f","g","h","i","j","k","l","m",
    "n","o","p","q","r","s","t","u","v","w","x","y","z">>

\* str.lower() on one character
LowerChar(c) ==
  IF \E k \in 1..26 : UpperLetters[k] = c
  THEN LowerLetters[CHOOSE k \in 1..26 : UpperLetters[k] = c]
  ELSE c

\* str.lower()
Lower(s) == [k \in 1..Len(s) |-> LowerChar(s[k])]

Whitespace == {" ", "\n", "\t", "\r"}

RECURSIVE LStrip(_)
LStrip(s) ==
  IF s # <<>> /\ Head(s) \in Whitespace THEN LStrip(Tail(s)) ELSE s

RECURSIVE RStrip(_)
RStrip(s) ==
  IF s # <<>> /\ s[Len(s)] \in Whitespace
  THEN RStrip(SubSeq(s, 1, Len(s) - 1)) ELSE s

\* str.strip()
Strip(s) == RStrip(LStrip(s))

\* sep.join(parts)
RECURSIVE Join(_, _)
Join(sep, parts) ==
  IF parts = <<>> THEN <<>>
  ELSE IF Len(parts) = 1 THEN parts[1]
  ELSE parts[1] \o sep \o Join(sep, Tail(parts))

Digits == <<"0","1","2","3","4","5","6","7","8","9">>

\* decimal digits of a natural number
RECURSIVE DecChars(_)
DecChars(n) ==
  IF n < 10 THEN <<Digits[n + 1]>>
  ELSE DecChars(n \div 10) \o <<Digits[(n % 10) + 1]>>

RECURSIVE Zeros(_)
Zeros(k) == IF k <= 0 THEN <<>> ELSE <<"0">> \o Zeros(k - 1)

\* format spec {n:0wd}: zero-padded to at least w digits, never truncated
PadInt(n, w) == Zeros(w - Len(DecChars(n))) \o DecChars(n)

\* ---------------------------------------------------------------------------
\* Output formatting
\* ---------------------------------------------------------------------------
F_json == <<"j","s","o","n">>
F_srt == <<"s","r","t">>
F_vtt == <<"v","t","t">>
F_txt == <<"t","x","t">>

format_timestamp_srt(seconds) ==
  LET hours == seconds.ms \div 3600000
      minutes == (seconds.ms % 3600000) \div 60000
      secs == (seconds.ms % 60000) \div 1000
      millis == seconds.fm
  IN PadInt(hours, 2) \o <<":">> \o PadInt(minutes, 2) \o <<":">>
       \o PadInt(secs, 2) \o <<",">> \o PadInt(millis, 3)

RECURSIVE DropTrailingZeros(_)
DropTrailingZeros(s) ==
  IF Len(s) > 1 /\ s[Len(s)] = "0"
  THEN DropTrailingZeros(SubSeq(s, 1, Len(s) - 1)) ELSE s

\* repr() of a float, as json.dumps writes it
FloatRepr(seconds) ==
  DecChars(seconds.ms \div 1000) \o <<".">>
    \o DropTrailingZeros(PadInt(seconds.ms % 1000, 3))

JsonEscapeChar(c) ==
  CASE c = "\"" -> <<"\\", "\"">>
    [] c = "\\" -> <<"\\", "\\">>
    [] c = "\n" -> <<"\\", "n">>
    [] c = "\t" -> <<"\\", "t">>
    [] c = "\r" -> <<"\\", "r">>
    [] OTHER -> <<c>>

RECURSIVE JsonString(_)
JsonString(s) ==
  IF s = <<>> THEN <<>> ELSE JsonEscapeChar(Head(s)) \o JsonString(Tail(s))

JsonQuoted(s) == <<"\"">> \o JsonString(s) \o <<"\"">>

JsonSegment(segment) ==
  <<"    {\n      \"start\": ">> \o FloatRepr(segment.start)
    \o <<",\n      \"end\": ">> \o FloatRepr(segment.end)
    \o <<",\n      \"text\": ">> \o JsonQuoted(segment.text)
    \o <<"\n    }">>

JsonSegments(segments) ==
  IF segments = <<>> THEN <<"[]">>
  ELSE <<"[\n">>
         \o Join(<<",\n">>, [k \in 1..Len(segments) |-> JsonSegment(segments[k])])
         \o <<"\n  ]">>

\* json.dumps(result, indent=2, ensure_ascii=False); keys in insertion order
JsonDumps(result) ==
  LET members ==
        <<  <<"  \"text\": ">> \o JsonQuoted(result.text),
            <<"  \"segments\": ">> \o JsonSegments(result.segments) >>
        \o (IF "language" \in DOMAIN result
            THEN << <<"  \"language\": ">> \o JsonQuoted(result.language) >>
            ELSE <<>>)
  IN <<"{\n">> \o Join(<<",\n">>, members) \o <<"\n}">>

\* variant: enumerate(result["segments"]) without the start value 1
SrtBlock_ZeroBased(i, segment) ==
  DecChars(i - 1) \o <<"\n">>
    \o format_timestamp_srt(segment.start) \o <<" ", "-", "-", ">", " ">>
    \o format_timestamp_srt(segment.end) \o <<"\n">>
    \o Strip(segment.text) \o <<"\n">>

SrtBlock(i, segment) ==
  DecChars(i) \o <<"\n">>
    \o format_timestamp_srt(segment.start) \o <<" ", "-", "-", ">", " ">>
    \o format_timestamp_srt(segment.end) \o <<"\n">>
    \o Strip(segment.text) \o <<"\n">>

\* variant: the segment text is not stripped
VttBlock_NoStrip(segment) ==
  format_timestamp_srt(segment.start) \o <<" ", "-", "-", ">", " ">>
    \o format_timestamp_srt(segment.end) \o <<"\n">>
    \o segment.text \o <<"\n">>

VttBlock(segment) ==
  format_timestamp_srt(segment.start) \o <<" ", "-", "-", ">", " ">>
    \o format_timestamp_srt(segment.end) \o <<"\n">>
    \o Strip(segment.text) \o <<"\n">>

\* variant: an unrecognized format is written as JSON
format_output_UnknownAsJson(result, format_type) ==
  IF format_type = F_srt THEN
    Join(<<"\n">>,
         [i \in 1..Len(result.segments) |-> SrtBlock(i, result.segments[i])])
  ELSE IF format_type = F_vtt THEN
    Join(<<"\n">>,
         << <<"W","E","B","V","T","T","\n">> >>
           \o [i \in 1..Len(result.segments) |-> VttBlock(result.segments[i])])
  ELSE IF format_type = F_txt THEN Strip(result.text)
  ELSE JsonDumps(result)

format_output(result, format_type) ==
  IF format_type = F_json THEN JsonDumps(result)
  ELSE IF format_type = F_srt THEN
    Join(<<"\n">>,
         [i \in 1..Len(result.segments) |-> SrtBlock(i, result.segments[i])])
  ELSE IF format_type = F_vtt THEN
    Join(<<"\n">>,
         << <<"W","E","B","V","T","T","\n">> >>
           \o [i \in 1..Len(result.segments) |-> VttBlock(result.segments[i])])
  ELSE Strip(result.text)

\* ---------------------------------------------------------------------------
\* Inputs: job payloads, environment, collaborator answers
\* ---------------------------------------------------------------------------
\* dict without key k
Without(d, k) == [x \in DOMAIN d \ {k} |-> d[x]]

\* job fields read with job_data[...] (in the order they are read)
RequiredKeys == <<"transcriptionId", "s3AudioUrl", "model", "format", "userId">>

BaseJob ==
  [transcriptionId |-> <<"t","1">>, s3AudioUrl |-> <<"h",":","a">>,
   model |-> <<"B","A","S","E">>, format |-> <<"S","R","T">>,
   userId |-> <<"u","1">>, callbackUrl |-> <<"h",":","c">>]

JobFormats ==
  { <<"J","S","O","N">>, <<"S","R","T">>, <<"V","T","T">>, <<"T","X","T">>,
    <<"X","M","L">> }

\* callbackUrl absent, the empty string, or a URL
CallbackOptions == { None, Some(<<>>), Some(<<"h",":","c">>) }

Job(fmt, cb) ==
  IF cb = None
  THEN Without([BaseJob EXCEPT !.format = fmt], "callbackUrl")
  ELSE [BaseJob EXCEPT !.format = fmt, !.callbackUrl = cb[1]]

JobDatas ==
  { Job(fmt, cb) : fmt \in JobFormats, cb \in CallbackOptions }
    \cup { Without(BaseJob, RequiredKeys[k]) : k \in 1..Len(RequiredKeys) }

FullEnv ==
  [S3_ACCESS_KEY |-> <<"k">>, S3_SECRET_KEY |-> <<"s">>, S3_BUCKET |-> <<"b">>]

Environs == { FullEnv } \cup { Without(FullEnv, k) : k \in DOMAIN FullEnv }

\* float samples: fm is int((s % 1) * 1000) as CPython evaluates it
Sec_0 == [ms |-> 0, fm |-> 0]
\* the int literal 0 of "... else 0"
Int_0 == [ms |-> 0, fm |-> 0, int |-> TRUE]
Sec_2_3 == [ms |-> 2300, fm |-> 299]

Sec_4_5 == [ms |-> 4500, fm |-> 500]

\* answers of model.transcribe
Results ==
  { [text |-> <<>>, segments |-> <<>>, language |-> <<"e","n">>],
    [text |-> <<" ","H","i"," ","y","o">>,
     segments |-> << [start |-> Sec_0, end |-> Sec_2_3,
                      text |-> <<" ","H","i","\n">>],
                     [start |-> Sec_2_3, end |-> Sec_4_5,
                      text |-> <<" ","y","o">>] >>] }

\* time.time() differences around model.transcribe, in milliseconds; the call
\* does real work, so the samples are positive
ElapsedMs(k) == 618 * k

\* round(x, 2) of a time given in milliseconds
Round2(ms) == ((ms + 5) \div 10) * 10

\* exceptions of the requests library (subclasses of RequestException)
RequestExceptions == {"ConnectionError", "Timeout", "HTTPError"}

\* str() of a number
StrNum(x) == IF "int" \in DOMAIN x THEN DecChars(x.ms \div 1000) ELSE FloatRepr(x)

\* ---------------------------------------------------------------------------
\* State
\* ---------------------------------------------------------------------------
VARIABLES
  job_data,   \* job_data[i]: the payload invocation i was called with
  environ,    \* os.environ
  files,      \* names of the temporary files that exist on the local disk
  storage,    \* the bucket: key -> stored object
  posts,      \* callback POSTs attempted so far, in order
  frame,      \* frame[i]: locals and position of invocation i of transcribe
  call        \* a direct call of format_output or format_timestamp_srt

vars == <<job_data, environ, files, storage, posts, frame, call>>

\* no direct call of a formatter is under way
NoCall == [fn |-> "none"]

\* locals of one invocation before it starts
NewFrame ==
  [pc |-> "idle",
   transcription_id |-> <<>>, s3_audio_url |-> <<>>, model_name |-> <<>>,
   output_format |-> <<>>, user_id |-> <<>>, callback_url |-> None,
   audio_file |-> None, audio_path |-> None,
   result |-> None, transcribe_time |-> 0, duration_seconds |-> Int_0,
   output_data |-> <<>>, s3_result_url |-> <<>>, result_data |-> None,
   error_msg |-> <<>>,
   ret |-> None,          \* the value returned to the invoker
   raised |-> None,       \* the exception propagated to the invoker
   failed_from |-> "none",\* history: stage in which the except clause fired
   calls |-> <<>>,        \* history: collaborator calls made, in order
   waiting |-> None,      \* the timeout of the network call that got no answer
   timed_out |-> {},      \* history: the network calls that ran into a timeout
   storage_at_call |-> <<>>] \* history: the bucket when transcribe was called

\* variant: "if callback_url is not None"
Truthy_NotNone(opt) == opt # None

\* truth value of an Optional[str]
Truthy(opt) == opt # None /\ opt[1] # <<>>

\* the pipeline stage a position belongs to
Stage(pc) ==
  CASE pc = "idle" -> "Idle"
    [] pc = "pending" -> "Pending"
    [] pc \in {"create_temp", "downloading"} -> "Downloading"
    [] pc \in {"load_model", "transcribing"} -> "Transcribing"
    [] pc = "deriving" -> "Deriving"
    [] pc = "formatting" -> "Formatting"
    [] pc = "uploading" -> "Uploading"
    [] pc = "cleanup" -> "Cleanup"
    [] pc = "notifying" -> "NotifyingCallback"
    [] pc \in {"returning", "completed"} -> "Completed"
    [] pc \in {"handle_cleanup", "handle_callback", "handle_return", "failed"}
         -> "Failed"
    [] pc = "raised" -> "Aborted"

\* record a collaborator call in the history
Called(f, op, ok) ==
  [f EXCEPT !.calls = Append(@, [op |-> op, ok |-> ok, at |-> f.pc])]

\* str(e) stands for itself
DownloadMessage(e) == <<"Failed", "to", "download", "audio:", e>>
TranscriptionMessage(e) == <<"Transcription", "failed:", e>>

\* variant: a single catch-all clause
ExceptClause_AllTranscription(f, e) ==
  [f EXCEPT !.error_msg = TranscriptionMessage(e),
            !.failed_from = Stage(f.pc),
            !.pc = "handle_cleanup"]

\* the two except clauses of transcribe, up to the call of handle_error
ExceptClause(f, e) ==
  [f EXCEPT !.error_msg = IF e \in RequestExceptions
                          THEN DownloadMessage(e)
                          ELSE TranscriptionMessage(e),
            !.failed_from = Stage(f.pc),
            !.pc = "handle_cleanup"]

\* an exception outside the try statement leaves transcribe
Propagate(f, e) == [f EXCEPT !.raised = Some(e), !.pc = "raised"]

Init ==
  \E jd \in JobDatas, env \in Environs :
    /\ job_data = [i \in Inv |-> IF i = 1 THEN jd ELSE BaseJob]
    /\ environ = env
    /\ files = {}
    /\ storage = <<>>
    /\ posts = <<>>
    /\ frame = [i \in Inv |-> IF i = 1 THEN [NewFrame EXCEPT !.pc = "pending"]
                              ELSE NewFrame]
    /\ call = NoCall

\* ---------------------------------------------------------------------------
\* transcribe
\* ---------------------------------------------------------------------------
\* reading the job fields and creating the storage client (before the try)
AfterSetup(f, jd, env, client_ok) ==
  LET missing == { k \in 1..Len(RequiredKeys) : RequiredKeys[k] \notin DOMAIN jd }
  IN IF missing # {} THEN Propagate(f, "KeyError")
     ELSE IF "S3_ACCESS_KEY" \notin DOMAIN env \/ "S3_SECRET_KEY" \notin DOMAIN env
     THEN Propagate(f, "KeyError")
     ELSE IF ~client_ok THEN Propagate(Called(f, "boto3.client", FALSE), "BotoError")
     ELSE [Called(f, "boto3.client", TRUE) EXCEPT
             !.transcription_id = jd.transcriptionId,
             !.s3_audio_url = jd.s3AudioUrl,
             !.model_name = Lower(jd.model),
             !.output_format = Lower(jd.format),
             !.user_id = jd.userId,
             !.callback_url = IF "callbackUrl" \in DOMAIN jd
                              THEN Some(jd.callbackUrl) ELSE None,
             !.audio_path = None,
             !.pc = "create_temp"]

Setup(i) ==
  /\ frame[i].pc = "pending"
  /\ \E client_ok \in BOOLEAN :
       frame' = [frame EXCEPT ![i] = AfterSetup(@, job_data[i], environ, client_ok)]
  /\ UNCHANGED <<call, job_data, environ, files, storage, posts>>

\* tempfile.NamedTemporaryFile(suffix=".audio", delete=False): the file is
\* created on disk under a name no existing file has
AfterCreateTemp(f, name) ==
  [Called(f, "NamedTemporaryFile", TRUE) EXCEPT
     !.audio_file = Some(name), !.pc = "downloading"]

\* variant: the name is not checked against the files that exist
CreateTemp_AnyName(i) ==
  /\ frame[i].pc = "create_temp"
  /\ \/ \E name \in TmpNames :
          /\ files' = files \cup {name}
          /\ frame' = [frame EXCEPT ![i] = AfterCreateTemp(@, name)]
     \/ /\ files' = files
        /\ frame' = [frame EXCEPT ![i] =
                       ExceptClause(Called(@, "NamedTemporaryFile", FALSE), "OSError")]
  /\ UNCHANGED <<call, job_data, environ, storage, posts>>

CreateTemp(i) ==
  /\ frame[i].pc = "create_temp"
  /\ \/ \E name \in TmpNames \ files :
          /\ files' = files \cup {name}
          /\ frame' = [frame EXCEPT ![i] = AfterCreateTemp(@, name)]
     \/ /\ files' = files
        /\ frame' = [frame EXCEPT ![i] =
                       ExceptClause(Called(@, "NamedTemporaryFile", FALSE), "OSError")]
  /\ UNCHANGED <<call, job_data, environ, storage, posts>>

\* variant: a failed GET is tried again (up to three attempts)
AfterDownload_Retry(f, outcome, exists) ==
  IF outcome \in RequestExceptions
  THEN IF Len(f.calls) < 5
       THEN Called(f, "requests.get", FALSE)
       ELSE ExceptClause(Called(f, "requests.get", FALSE), outcome)
  ELSE IF outcome = "write_error"
  THEN ExceptClause(Called(f, "requests.get", TRUE), "OSError")
  ELSE LET g == [Called(f, "requests.get", TRUE) EXCEPT !.audio_path = f.audio_file]
       IN IF exists THEN [g EXCEPT !.pc = "load_model"]
          ELSE ExceptClause(g, "OSError")

\* the body of the with statement and os.path.getsize
DownloadOutcomes == {"ok", "write_error"} \cup RequestExceptions

AfterDownload(f, outcome, exists) ==
  IF outcome \in RequestExceptions
  THEN ExceptClause(Called(f, "requests.get", FALSE), outcome)
  ELSE IF outcome = "write_error"
  THEN ExceptClause(Called(f, "requests.get", TRUE), "OSError")
  ELSE LET g == [Called(f, "requests.get", TRUE) EXCEPT !.audio_path = f.audio_file]
       IN IF exists THEN [g EXCEPT !.pc = "load_model"]
          ELSE ExceptClause(g, "OSError")

Download(i) ==
  /\ frame[i].pc = "downloading"
  /\ \E outcome \in DownloadOutcomes :
       frame' = [frame EXCEPT ![i] =
                   AfterDownload(@, outcome, frame[i].audio_file[1] \in files)]
  /\ UNCHANGED <<call, job_data, environ, files, storage, posts>>

\* variant: the failure of whisper.load_model is ignored
AfterLoadModel_Continue(f, ok) ==
  [Called(f, "whisper.load_model", ok) EXCEPT !.pc = "transcribing"]

AfterLoadModel(f, ok) ==
  IF ok THEN [Called(f, "whisper.load_model", TRUE) EXCEPT !.pc = "transcribing"]
  ELSE ExceptClause(Called(f, "whisper.load_model", FALSE), "RuntimeError")

LoadModel(i) ==
  /\ frame[i].pc = "load_model"
  /\ \E ok \in BOOLEAN : frame' = [frame EXCEPT ![i] = AfterLoadModel(@, ok)]
  /\ UNCHANGED <<call, job_data, environ, files, storage, posts>>

\* model.transcribe(audio_path, ...) and the elapsed time
AfterTranscribe(f, ok, r, elapsed) ==
  IF ok
  THEN [Called(f, "model.transcribe", TRUE) EXCEPT
          !.result = Some(r), !.transcribe_time = elapsed, !.pc = "deriving"]
  ELSE ExceptClause(Called(f, "model.transcribe", FALSE), "RuntimeError")

Transcribe(i) ==
  /\ frame[i].pc = "transcribing"
  /\ \E ok \in BOOLEAN, r \in Results, k \in 1..MaxElapsed :
       frame' = [frame EXCEPT ![i] =
                   AfterTranscribe(@, ok /\ frame[i].audio_path[1] \in files,
                                   r, ElapsedMs(k))]
  /\ UNCHANGED <<call, job_data, environ, files, storage, posts>>

\* variant: the start of the last segment
DurationOf_LastStart(result) ==
  IF result.segments # <<>>
  THEN result.segments[Len(result.segments)].start ELSE Int_0

\* duration_seconds and the transcription_complete log entry, which divides
\* by transcribe_time
DurationOf(result) ==
  IF result.segments # <<>>
  THEN result.segments[Len(result.segments)].end ELSE Int_0

AfterDerive(f) ==
  LET g == [f EXCEPT !.duration_seconds = DurationOf(f.result[1])]
  IN IF f.transcribe_time = 0 THEN ExceptClause(g, "ZeroDivisionError")
     ELSE [g EXCEPT !.pc = "formatting"]

Derive(i) ==
  /\ frame[i].pc = "deriving"
  /\ frame' = [frame EXCEPT ![i] = AfterDerive(@)]
  /\ UNCHANGED <<call, job_data, environ, files, storage, posts>>

AfterFormat(f) ==
  [Called(f, "format_output", TRUE) EXCEPT
     !.output_data = format_output(f.result[1], f.output_format),
     !.pc = "uploading"]

Format(i) ==
  /\ frame[i].pc = "formatting"
  /\ frame' = [frame EXCEPT ![i] = AfterFormat(@)]
  /\ UNCHANGED <<call, job_data, environ, files, storage, posts>>

\* f"results/{user_id}/{transcription_id}.{output_format}"
ResultKey(user_id, transcription_id, output_format) ==
  <<"r","e","s","u","l","t","s","/">> \o user_id \o <<"/">>
    \o transcription_id \o <<".">> \o output_format

\* variant: every object is stored as text/plain
ContentType_Plain(output_format) == "text/plain"

\* content_types.get(output_format, "text/plain")
ContentType(output_format) ==
  CASE output_format = F_json -> "application/json"
    [] output_format = F_srt -> "text/srt"
    [] output_format = F_vtt -> "text/vtt"
    [] output_format = F_txt -> "text/plain"
    [] OTHER -> "text/plain"

\* f"s3://{bucket}/{result_key}"
ResultUrl(bucket, result_key) ==
  <<"s","3",":","/","/">> \o bucket \o <<"/">> \o result_key

\* the keyword arguments of s3.put_object
PutObjectArgs(f, bucket) ==
  [Bucket |-> bucket,
   Key |-> ResultKey(f.user_id, f.transcription_id, f.output_format),
   Body |-> f.output_data,
   ContentType |-> ContentType(f.output_format),
   Metadata |-> [transcription_id |-> f.transcription_id,
                 user_id |-> f.user_id,
                 model |-> f.model_name,
                 duration |-> StrNum(f.duration_seconds)]]

\* outcome "no_bucket": os.environ["S3_BUCKET"] raises before the call
AfterUpload(f, outcome, env) ==
  IF outcome = "no_bucket" THEN ExceptClause(f, "KeyError")
  ELSE IF outcome = "put_error"
  THEN ExceptClause(Called(f, "s3.put_object", FALSE), "ClientError")
  ELSE [Called(f, "s3.put_object", TRUE) EXCEPT
          !.s3_result_url =
             ResultUrl(env.S3_BUCKET,
                       ResultKey(f.user_id, f.transcription_id, f.output_format)),
          !.pc = "cleanup"]

Upload(i) ==
  /\ frame[i].pc = "uploading"
  /\ IF "S3_BUCKET" \notin DOMAIN environ
     THEN /\ frame' = [frame EXCEPT ![i] = AfterUpload(@, "no_bucket", environ)]
          /\ storage' = storage
     ELSE \E outcome \in {"ok", "put_error"} :
            /\ frame' = [frame EXCEPT ![i] = AfterUpload(@, outcome, environ)]
            /\ storage' =
                 IF outcome = "ok"
                 THEN LET args == PutObjectArgs(frame[i], environ.S3_BUCKET)
                      IN (args.Key :> args) @@ storage
                 ELSE storage
  /\ UNCHANGED <<call, job_data, environ, files, posts>>

\* the result_data literal
ResultData(f) ==
  [success |-> TRUE,
   s3ResultUrl |-> f.s3_result_url,
   durationSeconds |-> f.duration_seconds,
   processingTime |-> Round2(f.transcribe_time),
   language |-> IF "language" \in DOMAIN f.result[1]
                THEN f.result[1].language
                ELSE <<"u","n","k","n","o","w","n">>]

\* "if audio_path and os.path.exists(audio_path)"
MustUnlink(f, fs) == f.audio_path # None /\ f.audio_path[1] \in fs

\* step 6 of the try body (no try around os.unlink) and result_data
AfterCleanup(f, must_unlink, unlink_ok) ==
  IF must_unlink /\ ~unlink_ok
  THEN ExceptClause(Called(f, "os.unlink", FALSE), "OSError")
  ELSE LET g == IF must_unlink THEN Called(f, "os.unlink", TRUE) ELSE f
       IN [g EXCEPT !.result_data = Some(ResultData(f)), !.pc = "notifying"]

\* the disk after an unlink attempt
FilesAfterUnlink(fs, f, must_unlink, unlink_ok) ==
  IF must_unlink /\ unlink_ok THEN fs \ {f.audio_path[1]} ELSE fs

Cleanup(i) ==
  /\ frame[i].pc = "cleanup"
  /\ LET must == MustUnlink(frame[i], files)
     IN \E unlink_ok \in (IF must THEN BOOLEAN ELSE {TRUE}) :
          /\ frame' = [frame EXCEPT ![i] = AfterCleanup(@, must, unlink_ok)]
          /\ files' = FilesAfterUnlink(files, frame[i], must, unlink_ok)
  /\ UNCHANGED <<call, job_data, environ, storage, posts>>

\* the JSON body of the COMPLETED callback
CompletedPayload(f) ==
  [transcriptionId |-> f.transcription_id,
   status |-> "COMPLETED",
   success |-> f.result_data[1].success,
   s3ResultUrl |-> f.result_data[1].s3ResultUrl,
   durationSeconds |-> f.result_data[1].durationSeconds,
   processingTime |-> f.result_data[1].processingTime,
   language |-> f.result_data[1].language]

\* variant: requests.post without its own try
AfterNotify_NoTry(f, post_ok) ==
  IF Truthy(f.callback_url)
  THEN IF post_ok
       THEN [Called(f, "requests.post", TRUE) EXCEPT !.pc = "returning"]
       ELSE ExceptClause(Called(f, "requests.post", FALSE), "ConnectionError")
  ELSE [f EXCEPT !.pc = "returning"]

\* step 7: the exception of requests.post is caught and logged
AfterNotify(f, post_ok) ==
  IF Truthy(f.callback_url)
  THEN [Called(f, "requests.post", post_ok) EXCEPT !.pc = "returning"]
  ELSE [f EXCEPT !.pc = "returning"]

PostsAfterNotify(ps, i, f, post_ok) ==
  IF Truthy(f.callback_url)
  THEN Append(ps, [inv |-> i, url |-> f.callback_url[1],
                   json |-> CompletedPayload(f), delivered |-> post_ok])
  ELSE ps

Notify(i) ==
  /\ frame[i].pc = "notifying"
  /\ \E post_ok \in (IF Truthy(frame[i].callback_url) THEN BOOLEAN ELSE {TRUE}) :
       /\ frame' = [frame EXCEPT ![i] = AfterNotify(@, post_ok)]
       /\ posts' = PostsAfterNotify(posts, i, frame[i], post_ok)
  /\ UNCHANGED <<call, job_data, environ, files, storage>>

\* return result_data
AfterReturn(f) == [f EXCEPT !.ret = f.result_data, !.pc = "completed"]

Return(i) ==
  /\ frame[i].pc = "returning"
  /\ frame' = [frame EXCEPT ![i] = AfterReturn(@)]
  /\ UNCHANGED <<call, job_data, environ, files, storage, posts>>

\* ---------------------------------------------------------------------------
\* handle_error(transcription_id, error_msg, callback_url, audio_path)
\* ---------------------------------------------------------------------------
\* variant: os.unlink without its own try
AfterHandleCleanup_NoTry(f, must_unlink, unlink_ok) ==
  IF must_unlink /\ ~unlink_ok
  THEN Propagate(Called(f, "os.unlink", FALSE), "OSError")
  ELSE LET g == IF must_unlink THEN Called(f, "os.unlink", TRUE) ELSE f
       IN [g EXCEPT !.pc = "handle_callback"]

\* cleanup of the temp file; any exception of os.unlink is swallowed
AfterHandleCleanup(f, must_unlink, unlink_ok) ==
  LET g == IF must_unlink THEN Called(f, "os.unlink", unlink_ok) ELSE f
  IN [g EXCEPT !.pc = "handle_callback"]

HandleCleanup(i) ==
  /\ frame[i].pc = "handle_cleanup"
  /\ LET must == MustUnlink(frame[i], files)
     IN \E unlink_ok \in (IF must THEN BOOLEAN ELSE {TRUE}) :
          /\ frame' = [frame EXCEPT ![i] = AfterHandleCleanup(@, must, unlink_ok)]
          /\ files' = FilesAfterUnlink(files, frame[i], must, unlink_ok)
  /\ UNCHANGED <<call, job_data, environ, storage, posts>>

\* the JSON body of the FAILED callback
FailedPayload(f) ==
  [transcriptionId |-> f.transcription_id,
   status |-> "FAILED",
   error |-> f.error_msg]

\* variant: the callback failure replaces the reported error
AfterHandleCallback_Overwrite(f, post_ok) ==
  IF Truthy(f.callback_url)
  THEN [Called(f, "requests.post", post_ok) EXCEPT
          !.error_msg = IF post_ok THEN @ ELSE <<"Callback", "failed:", "ConnectionError">>,
          !.pc = "handle_return"]
  ELSE [f EXCEPT !.pc = "handle_return"]

\* the error callback; any exception of requests.post is swallowed
AfterHandleCallback(f, post_ok) ==
  IF Truthy(f.callback_url)
  THEN [Called(f, "requests.post", post_ok) EXCEPT !.pc = "handle_return"]
  ELSE [f EXCEPT !.pc = "handle_return"]

PostsAfterHandleCallback(ps, i, f, post_ok) ==
  IF Truthy(f.callback_url)
  THEN Append(ps, [inv |-> i, url |-> f.callback_url[1],
                   json |-> FailedPayload(f), delivered |-> post_ok])
  ELSE ps

HandleCallback(i) ==
  /\ frame[i].pc = "handle_callback"
  /\ \E post_ok \in (IF Truthy(frame[i].callback_url) THEN BOOLEAN ELSE {TRUE}) :
       /\ frame' = [frame EXCEPT ![i] = AfterHandleCallback(@, post_ok)]
       /\ posts' = PostsAfterHandleCallback(posts, i, frame[i], post_ok)
  /\ UNCHANGED <<call, job_data, environ, files, storage>>

\* return {"success": False, "error": error_msg}
AfterHandleReturn(f) ==
  [f EXCEPT !.ret = Some([success |-> FALSE, error |-> f.error_msg]),
            !.pc = "failed"]

HandleReturn(i) ==
  /\ frame[i].pc = "handle_return"
  /\ frame' = [frame EXCEPT ![i] = AfterHandleReturn(@)]
  /\ UNCHANGED <<call, job_data, environ, files, storage, posts>>

\* ---------------------------------------------------------------------------
Next ==
  \/ \E i \in Inv : Setup(i)
  \/ \E i \in Inv : CreateTemp(i)
  \/ \E i \in Inv : Download(i)
  \/ \E i \in Inv : LoadModel(i)
  \/ \E i \in Inv : Transcribe(i)
  \/ \E i \in Inv : Derive(i)
  \/ \E i \in Inv : Format(i)
  \/ \E i \in Inv : Upload(i)
  \/ \E i \in Inv : Cleanup(i)
  \/ \E i \in Inv : Notify(i)
  \/ \E i \in Inv : Return(i)
  \/ \E i \in Inv : HandleCleanup(i)
  \/ \E i \in Inv : HandleCallback(i)
  \/ \E i \in Inv : HandleReturn(i)

Spec == Init /\ [][Next]_vars

\* ---------------------------------------------------------------------------
\* Properties
\* ---------------------------------------------------------------------------
HandlerPcs == {"handle_cleanup", "handle_callback", "handle_return", "failed"}

\* positions in the call history of f of the calls of op
CallIdx(f, op) == { k \in DOMAIN f.calls : f.calls[k].op = op }

\* some call of op made at position pc raised
Raised(f, op, pc) ==
  \E k \in CallIdx(f, op) : ~f.calls[k].ok /\ f.calls[k].at = pc

\* some call of op made at position pc returned normally
Succeeded(f, op, pc) ==
  \E k \in CallIdx(f, op) : f.calls[k].ok /\ f.calls[k].at = pc

\* indexes of the callback POSTs of invocation i
PostIdx(i) == { k \in DOMAIN posts : posts[k].inv = i }

StatusesBy(i) == { posts[k].json.status : k \in PostIdx(i) }

\* the payload carried a callback URL
Supplied(i) ==
  "callbackUrl" \in DOMAIN job_data[i] /\ job_data[i].callbackUrl # <<>>

Contains(msg, word) == \E k \in DOMAIN msg : msg[k] = word

\* C1: when an invocation has returned (and no deletion raised), the
\* temporary audio file it created no longer exists.
C1_TempFileRemovedOnReturn ==
  \A i \in Inv :
    LET f == frame[i]
    IN (f.ret # None /\ ~Raised(f, "os.unlink", "cleanup")
                     /\ ~Raised(f, "os.unlink", "handle_cleanup"))
         => (f.audio_file = None \/ f.audio_file[1] \notin files)

\* C2: no exception escapes transcribe: no invocation ends by propagating a
\* fault to its invoker.
C2_NoExceptionEscapes ==
  \A i \in Inv : frame[i].raised = None /\ frame[i].pc # "raised"

\* C3: after a failed audio download there is no model load, transcription,
\* formatting or upload, at most one callback POST and only with status
\* FAILED, and the value returned is a failure whose message contains
\* "download".
C3_DownloadFailure ==
  \A i \in Inv :
    LET f == frame[i]
    IN Raised(f, "requests.get", "downloading") =>
         /\ CallIdx(f, "whisper.load_model") = {}
         /\ CallIdx(f, "model.transcribe") = {}
         /\ CallIdx(f, "format_output") = {}
         /\ CallIdx(f, "s3.put_object") = {}
         /\ DOMAIN storage = {}
         /\ Cardinality(PostIdx(i)) <= 1
         /\ StatusesBy(i) \subseteq {"FAILED"}
         /\ f.pc \in HandlerPcs
         /\ f.pc = "failed" =>
              /\ f.ret # None
              /\ f.ret[1].success = FALSE
              /\ Contains(f.ret[1].error, "download")

C3_Witness ==
  \E i \in Inv :
    /\ Raised(frame[i], "requests.get", "downloading")
    /\ frame[i].pc = "failed"
    /\ Cardinality(PostIdx(i)) = 1

\* C4: when the callback POST raised, the value returned is the one the run
\* had prepared before the POST: the success result built from the upload on
\* the success path, the failure carrying the error that was sent in the
\* FAILED payload on the failure path.
C4_CallbackFailureKeepsResult ==
  \A i \in Inv :
    LET f == frame[i]
    IN (f.ret # None /\ (Raised(f, "requests.post", "notifying")
                          \/ Raised(f, "requests.post", "handle_callback")))
         => IF f.result_data # None
            THEN /\ f.ret = Some(ResultData(f))
                 /\ f.ret[1].success = TRUE
            ELSE \A k \in PostIdx(i) :
                   f.ret = Some([success |-> FALSE, error |-> posts[k].json.error])

C4_Witness ==
  \E i \in Inv :
    /\ frame[i].pc = "completed"
    /\ Raised(frame[i], "requests.post", "notifying")
    /\ frame[i].ret[1].success = TRUE

\* the stage machine as the specification states it: Failed entered only
\* from Downloading or Transcribing
ClaimedEdges ==
  { <<"Pending", "Downloading">>, <<"Downloading", "Transcribing">>,
    <<"Transcribing", "Deriving">>, <<"Deriving", "Formatting">>,
    <<"Formatting", "Uploading">>, <<"Uploading", "Cleanup">>,
    <<"Cleanup", "NotifyingCallback">>, <<"NotifyingCallback", "Completed">>,
    <<"Downloading", "Failed">>, <<"Transcribing", "Failed">>,
    <<"Pending", "Aborted">> }

\* the stage machine of the code: Failed entered from every stage of the try
\* body that precedes the callback
CodeEdges ==
  ClaimedEdges \cup
    { <<"Deriving", "Failed">>, <<"Formatting", "Failed">>,
      <<"Uploading", "Failed">>, <<"Cleanup", "Failed">> }

StageStep(i, edges) ==
  Stage(frame[i].pc) # Stage(frame'[i].pc)
    => <<Stage(frame[i].pc), Stage(frame'[i].pc)>> \in edges

IsStageCall(c, cleanup_at) ==
  \/ c.op \in {"requests.get", "whisper.load_model", "model.transcribe",
               "format_output", "s3.put_object"}
  \/ c.op = "os.unlink" /\ c.at \in cleanup_at
  \/ c.op = "requests.post" /\ c.at = "notifying"

\* every call of op is preceded by a call of prev that returned normally
PrecededBy(f, op, prev) ==
  \A k \in CallIdx(f, op) :
    \E j \in CallIdx(f, prev) : j < k /\ f.calls[j].ok

StageOrder(f, cleanup_at) ==
  /\ PrecededBy(f, "whisper.load_model", "requests.get")
  /\ PrecededBy(f, "model.transcribe", "requests.get")
  /\ PrecededBy(f, "model.transcribe", "whisper.load_model")
  /\ PrecededBy(f, "format_output", "model.transcribe")
  /\ PrecededBy(f, "s3.put_object", "format_output")
  \* cleanup only after the upload completed
  /\ \A k \in CallIdx(f, "os.unlink") :
       f.calls[k].at \in cleanup_at =>
         \E j \in CallIdx(f, "s3.put_object") : j < k /\ f.calls[j].ok
  \* the COMPLETED callback only after the upload and the cleanup completed
  /\ \A k \in CallIdx(f, "requests.post") :
       f.calls[k].at = "notifying" =>
         /\ \E j \in CallIdx(f, "s3.put_object") : j < k /\ f.calls[j].ok
         /\ \A j \in CallIdx(f, "os.unlink") : j < k /\ f.calls[j].ok
         /\ f.result_data # None
  \* no stage is started after a failure
  /\ \A j, k \in DOMAIN f.calls :
       (j < k /\ ~f.calls[j].ok) => ~IsStageCall(f.calls[k], cleanup_at)
  /\ f.failed_from # "none" =>
       /\ f.pc \in HandlerPcs
       /\ \A j, k \in DOMAIN f.calls :
            (j < k /\ f.calls[j].at \in HandlerPcs) =>
              ~IsStageCall(f.calls[k], cleanup_at)

\* C6 (as stated): the stages run in order, temp-file cleanup is attempted
\* only after the upload completed, and no stage (cleanup included) is
\* started after an earlier stage failed.
C6_StagesStrictlyOrdered ==
  \A i \in Inv : StageOrder(frame[i], {"cleanup", "handle_cleanup"})

\* C6 (amended): the stages run in order, the cleanup of the success path is
\* attempted only after the upload completed, and after a failure no stage of
\* the success path is started; the cleanup of the failure handler runs
\* without an upload.
C6_SuccessPathOrdered ==
  \A i \in Inv : StageOrder(frame[i], {"cleanup"})

C6_Witness ==
  \E i \in Inv :
    /\ frame[i].pc = "completed"
    /\ Succeeded(frame[i], "os.unlink", "cleanup")
    /\ Succeeded(frame[i], "requests.post", "notifying")

\* C7: a deletion failure does not alter the outcome: when everything up to
\* the upload succeeded and os.unlink then raised, the run returns success
\* and sends COMPLETED; when os.unlink raised inside the handler, the run
\* returns the failure and sends FAILED.
C7_UnlinkFailureSwallowed ==
  \A i \in Inv :
    LET f == frame[i]
    IN f.pc \in {"completed", "failed"} =>
         /\ Raised(f, "os.unlink", "cleanup") =>
              /\ f.ret[1].success = TRUE
              /\ Supplied(i) => StatusesBy(i) = {"COMPLETED"}
         /\ (Raised(f, "os.unlink", "handle_cleanup")
               /\ ~Raised(f, "os.unlink", "cleanup")) =>
              /\ f.ret = Some([success |-> FALSE, error |-> f.error_msg])
              /\ Supplied(i) => StatusesBy(i) = {"FAILED"}

\* C8: an invocation makes at most one callback POST, none when no callback
\* URL was supplied; when it has returned and a URL was supplied it has made
\* exactly one, with status COMPLETED if it returned success and FAILED if
\* it returned failure.
C8_CallbackMatchesResult ==
  \A i \in Inv :
    LET f == frame[i]
    IN /\ Cardinality(PostIdx(i)) <= 1
       /\ ~Supplied(i) => PostIdx(i) = {}
       /\ (f.ret # None /\ Supplied(i)) =>
            /\ Cardinality(PostIdx(i)) = 1
            /\ StatusesBy(i) =
                 {IF f.ret[1].success THEN "COMPLETED" ELSE "FAILED"}

C8_Witness ==
  \E i \in Inv :
    /\ Supplied(i)
    /\ frame[i].pc = "completed"
    /\ StatusesBy(i) = {"COMPLETED"}
    /\ frame[i].ret[1].success = TRUE

C10_NoRetry ==
  \A i \in Inv :
    LET f == frame[i]
    IN /\ \A op \in {"requests.get", "whisper.load_model", "model.transcribe",
                     "s3.put_object"} :
            Cardinality(CallIdx(f, op)) <= 1
       /\ Raised(f, "requests.get", "downloading") =>
            f.pc \in HandlerPcs /\ f.failed_from = "Downloading"
       /\ (Raised(f, "whisper.load_model", "load_model")
             \/ Raised(f, "model.transcribe", "transcribing")) =>
            f.pc \in HandlerPcs /\ f.failed_from = "Transcribing"
       /\ Raised(f, "s3.put_object", "uploading") =>
            f.pc \in HandlerPcs /\ f.failed_from = "Uploading"

C10_Witness ==
  \E i \in Inv :
    /\ frame[i].pc = "failed"
    /\ Raised(frame[i], "model.transcribe", "transcribing")
    /\ Cardinality(CallIdx(frame[i], "requests.get")) = 1

\* ---------------------------------------------------------------------------
\* Re-processing: the scheduler calls transcribe again with the same payload
\* once the previous invocation has ended
\* ---------------------------------------------------------------------------
Terminal == {"completed", "failed", "raised"}

RerunJobs == { Job(<<"S","R","T">>, None) }

InitRerun ==
  \E jd \in RerunJobs :
    /\ job_data = [i \in Inv |-> jd]
    /\ environ = FullEnv
    /\ files = {}
    /\ storage = <<>>
    /\ posts = <<>>
    /\ frame = [i \in Inv |-> IF i = 1 THEN [NewFrame EXCEPT !.pc = "pending"]
                              ELSE NewFrame]
    /\ call = NoCall

Reinvoke(i) ==
  /\ i > 1
  /\ frame[i].pc = "idle"
  /\ frame[i - 1].pc \in Terminal
  /\ frame' = [frame EXCEPT ![i] =
                 [@ EXCEPT !.pc = "pending", !.storage_at_call = storage]]
  /\ UNCHANGED <<call, job_data, environ, files, storage, posts>>

NextRerun ==
  \/ Next
  \/ \E i \in Inv : Reinvoke(i)

SpecRerun == InitRerun /\ [][NextRerun]_vars

\* the storage key of the job of invocation i, from its payload
JobKey(i) ==
  <<"r","e","s","u","l","t","s","/">> \o job_data[i].userId \o <<"/">>
    \o job_data[i].transcriptionId \o <<".">> \o Lower(job_data[i].format)

\* invocation i is the most recent one
Latest(i) == i = NumInvocations \/ frame[IF i < NumInvocations THEN i + 1 ELSE i].pc = "idle"

\* C11: invocations with the same payload write one and the same key and
\* return the same s3ResultUrl; the bucket holds at most that one object, which
\* a successful run overwrites and a failed run leaves as it found it.
C11_RerunIdempotent ==
  \A i \in Inv :
    LET f == frame[i]
    IN /\ DOMAIN storage \subseteq {JobKey(i)}
       /\ \A j \in Inv :
            (f.pc = "completed" /\ frame[j].pc = "completed")
              => f.ret[1].s3ResultUrl = frame[j].ret[1].s3ResultUrl
       /\ (f.pc = "completed" /\ Latest(i)) =>
            /\ JobKey(i) \in DOMAIN storage
            /\ storage[JobKey(i)].Body = f.output_data
       /\ (f.pc = "failed" /\ Latest(i) /\ DOMAIN f.storage_at_call # {})
            => storage = f.storage_at_call

\* ---------------------------------------------------------------------------
\* Two invocations for different jobs, interleaved by the scheduler
\* ---------------------------------------------------------------------------
ConcurrentJobs ==
  << Job(<<"S","R","T">>, None),
     [Job(<<"T","X","T">>, None) EXCEPT !.transcriptionId = <<"t","2">>] >>

InitConcurrent ==
  /\ job_data = [i \in Inv |-> IF i <= 2 THEN ConcurrentJobs[i] ELSE BaseJob]
  /\ environ = FullEnv
  /\ files = {}
  /\ storage = <<>>
  /\ posts = <<>>
  /\ frame = [i \in Inv |-> IF i <= 2 THEN [NewFrame EXCEPT !.pc = "pending"]
                            ELSE NewFrame]
  /\ call = NoCall

SpecConcurrent == InitConcurrent /\ [][Next]_vars

\* invocation i has created its temp file and has not deleted it
HoldsFile(i) ==
  /\ frame[i].audio_file # None
  /\ ~Succeeded(frame[i], "os.unlink", "cleanup")
  /\ ~Succeeded(frame[i], "os.unlink", "handle_cleanup")

\* invocation i has stored its result
Uploaded(i) == Succeeded(frame[i], "s3.put_object", "uploading")

\* C12: under every interleaving of two invocations for different jobs, the
\* temp file of an invocation exists until that invocation deletes it and is
\* the temp file of no other invocation, the bucket holds only the objects of
\* the invocations that uploaded, each under its own key with its own body,
\* and an invocation returns the result of its own job.
C12_InvocationsIndependent ==
  \A i \in Inv :
    LET f == frame[i]
    IN /\ HoldsFile(i) => f.audio_file[1] \in files
       /\ \A j \in Inv \ {i} :
            (HoldsFile(i) /\ HoldsFile(j)) => f.audio_file # frame[j].audio_file
       /\ f.audio_path # None => f.audio_path = f.audio_file
       /\ DOMAIN storage = { JobKey(j) : j \in { n \in Inv : Uploaded(n) } }
       /\ Uploaded(i) =>
            /\ storage[JobKey(i)].Body = f.output_data
            /\ storage[JobKey(i)].Metadata.transcription_id
                 = job_data[i].transcriptionId
            /\ f.output_data = format_output(f.result[1], Lower(job_data[i].format))
       /\ \A k \in CallIdx(f, "model.transcribe") :
            ~f.calls[k].ok => f.error_msg = TranscriptionMessage("RuntimeError")
       /\ f.pc = "completed" =>
            /\ Uploaded(i)
            /\ f.ret[1].success = TRUE
            /\ f.ret[1].s3ResultUrl
                 = <<"s","3",":","/","/">> \o environ.S3_BUCKET \o <<"/">> \o JobKey(i)
            /\ f.ret[1].durationSeconds = DurationOf(f.result[1])
       /\ f.pc = "failed" =>
            f.ret = Some([success |-> FALSE, error |-> f.error_msg])

C12_Witness ==
  /\ frame[1].pc = "completed"
  /\ frame[2].pc = "completed"
  /\ Cardinality(DOMAIN storage) = 2
  /\ frame[1].audio_file = frame[2].audio_file

\* ---------------------------------------------------------------------------
\* A network collaborator that does not answer
\* ---------------------------------------------------------------------------
\* requests.get(s3_audio_url, timeout=300)
DownloadTimeout == 300

\* requests.post(callback_url, json=..., timeout=10)
CallbackTimeout == 10

\* Config(signature_version="s3v4") sets neither connect_timeout nor
\* read_timeout, so the client keeps botocore's default of 60 seconds
ClientTimeout == 60

\* the network call made at a position, if one is made there
NetworkCall(f, env) ==
  CASE f.pc = "downloading" -> Some("requests.get")
    [] f.pc = "uploading" /\ "S3_BUCKET" \in DOMAIN env -> Some("s3.put_object")
    [] f.pc \in {"notifying", "handle_callback"} /\ Truthy(f.callback_url)
         -> Some("requests.post")
    [] OTHER -> None

\* variant: put_object on a client whose timeouts are switched off
Timeout_UploadUnbounded(op) ==
  CASE op = "requests.get" -> Some(DownloadTimeout)
    [] op = "requests.post" -> Some(CallbackTimeout)
    [] op = "s3.put_object" -> None

\* the timeout a network call is made with (None: it waits without limit)
Timeout(op) ==
  CASE op = "requests.get" -> Some(DownloadTimeout)
    [] op = "requests.post" -> Some(CallbackTimeout)
    [] op = "s3.put_object" -> Some(ClientTimeout)

\* the collaborator of the call at this position does not answer
Stall(i) ==
  /\ frame[i].waiting = None
  /\ NetworkCall(frame[i], environ) # None
  /\ frame' = [frame EXCEPT ![i].waiting =
                 Some([op |-> NetworkCall(frame[i], environ)[1],
                       timeout |-> Timeout(NetworkCall(frame[i], environ)[1])])]
  /\ UNCHANGED <<call, job_data, environ, files, storage, posts>>

\* the pending call raises its timeout exception
AfterTimeout(f, exists, env) ==
  LET g == [f EXCEPT !.waiting = None, !.timed_out = @ \cup {f.waiting[1].op}]
  IN CASE f.pc = "downloading" -> AfterDownload(g, "Timeout", exists)
       [] f.pc = "uploading" -> AfterUpload(g, "put_error", env)
       [] f.pc = "notifying" -> AfterNotify(g, FALSE)
       [] f.pc = "handle_callback" -> AfterHandleCallback(g, FALSE)

TimeoutExpires(i) ==
  /\ frame[i].waiting # None
  /\ frame[i].waiting[1].timeout # None
  /\ frame' = [frame EXCEPT ![i] =
                 AfterTimeout(@, frame[i].audio_file[1] \in files, environ)]
  /\ posts' = CASE frame[i].pc = "notifying"
                     -> PostsAfterNotify(posts, i, frame[i], FALSE)
                [] frame[i].pc = "handle_callback"
                     -> PostsAfterHandleCallback(posts, i, frame[i], FALSE)
                [] OTHER -> posts
  /\ UNCHANGED <<call, job_data, environ, files, storage>>

\* an invocation that waits for an answer takes no other step
Running(i) == frame[i].waiting = None

NextLive ==
  \/ \E i \in Inv : Running(i) /\ Setup(i)
  \/ \E i \in Inv : Running(i) /\ CreateTemp(i)
  \/ \E i \in Inv : Running(i) /\ Download(i)
  \/ \E i \in Inv : Running(i) /\ LoadModel(i)
  \/ \E i \in Inv : Running(i) /\ Transcribe(i)
  \/ \E i \in Inv : Running(i) /\ Derive(i)
  \/ \E i \in Inv : Running(i) /\ Format(i)
  \/ \E i \in Inv : Running(i) /\ Upload(i)
  \/ \E i \in Inv : Running(i) /\ Cleanup(i)
  \/ \E i \in Inv : Running(i) /\ Notify(i)
  \/ \E i \in Inv : Running(i) /\ Return(i)
  \/ \E i \in Inv : Running(i) /\ HandleCleanup(i)
  \/ \E i \in Inv : Running(i) /\ HandleCallback(i)
  \/ \E i \in Inv : Running(i) /\ HandleReturn(i)
  \/ \E i \in Inv : Stall(i)
  \/ \E i \in Inv : TimeoutExpires(i)

\* the interpreter keeps executing the function, and a timer that was set fires
SpecLive == Init /\ [][NextLive]_vars /\ WF_vars(NextLive)

\* C13: every network call is made with a timeout, and an invocation whose
\* collaborator does not answer still reaches Completed or Failed and
\* returns a JobResult.
C13_StalledCallEnds ==
  \A i \in Inv :
    /\ [](frame[i].waiting # None => frame[i].waiting[1].timeout # None)
    /\ (frame[i].waiting # None)
         ~> (frame[i].pc \in {"completed", "failed"} /\ frame[i].ret # None)

C13_Witness ==
  \E i \in Inv :
    /\ frame[i].pc = "failed"
    /\ frame[i].timed_out = {"s3.put_object", "requests.post"}
    /\ frame[i].ret # None

\* ---------------------------------------------------------------------------
\* The values of a successful run
\* ---------------------------------------------------------------------------
\* the COMPLETED callback payloads sent by invocation i
CompletedPosts(i) ==
  { posts[k].json : k \in { n \in PostIdx(i) : posts[n].json.status = "COMPLETED" } }

\* C14: a successful run reports as durationSeconds, in the returned result,
\* in the COMPLETED callback payload and in the metadata of the stored
\* object, the end of the last segment of the transcription result, and 0
\* when the result has no segments.
C14_DurationIsLastSegmentEnd ==
  \A i \in Inv :
    frame[i].pc = "completed" =>
      LET f == frame[i]
          segs == f.result[1].segments
          key == JobKey(i)
      IN /\ f.ret[1].success = TRUE
         /\ key \in DOMAIN storage
         /\ \A p \in CompletedPosts(i) :
              p.durationSeconds = f.ret[1].durationSeconds
         /\ IF segs = <<>>
            THEN /\ f.ret[1].durationSeconds.ms = 0
                 /\ storage[key].Metadata.duration = <<"0">>
            ELSE /\ f.ret[1].durationSeconds = segs[Len(segs)].end
                 /\ storage[key].Metadata.duration = FloatRepr(segs[Len(segs)].end)

\* a run whose transcription result has no segments succeeded and notified
C14_Witness ==
  \E i \in Inv :
    /\ frame[i].pc = "completed"
    /\ frame[i].result[1].segments = <<>>
    /\ CompletedPosts(i) # {}

\* the recognized formats: requested value, extension, content type
FormatTable ==
  { [requested |-> <<"J","S","O","N">>, ext |-> <<"j","s","o","n">>,
     ctype |-> "application/json"],
    [requested |-> <<"S","R","T">>, ext |-> <<"s","r","t">>, ctype |-> "text/srt"],
    [requested |-> <<"V","T","T">>, ext |-> <<"v","t","t">>, ctype |-> "text/vtt"],
    [requested |-> <<"T","X","T">>, ext |-> <<"t","x","t">>, ctype |-> "text/plain"] }

\* C15: a successful run for a recognized format makes one upload, under key
\* results/{userId}/{transcriptionId}.{ext}, with the content type of the
\* format and the formatter's output for the format as body, and returns an
\* s3ResultUrl that names this key.
C15_UploadMatchesFormat ==
  \A i \in Inv : \A row \in FormatTable :
    (frame[i].pc = "completed" /\ job_data[i].format = row.requested) =>
      LET f == frame[i]
          key == <<"r","e","s","u","l","t","s","/">> \o job_data[i].userId
                   \o <<"/">> \o job_data[i].transcriptionId \o <<".">> \o row.ext
      IN /\ Cardinality(CallIdx(f, "s3.put_object")) = 1
         /\ DOMAIN storage = {key}
         /\ storage[key].Key = key
         /\ storage[key].Bucket = environ.S3_BUCKET
         /\ storage[key].ContentType = row.ctype
         /\ storage[key].Body = format_output(f.result[1], row.ext)
         /\ f.ret[1].s3ResultUrl
              = <<"s","3",":","/","/">> \o environ.S3_BUCKET \o <<"/">> \o key

C15_Witness ==
  \E i \in Inv :
    /\ frame[i].pc = "completed"
    /\ job_data[i].format = <<"V","T","T">>
    /\ frame[i].result[1].segments # <<>>
    /\ DOMAIN storage # {}

\* ---------------------------------------------------------------------------
\* The formatters called on their own
\* ---------------------------------------------------------------------------
\* float offsets with the value int((s % 1) * 1000) has for them in CPython
TimestampSamples ==
  { Sec_0, Sec_2_3, Sec_4_5,
    [ms |-> 1, fm |-> 1], [ms |-> 500, fm |-> 500], [ms |-> 1001, fm |-> 0],
    [ms |-> 45250, fm |-> 250], [ms |-> 59999, fm |-> 999],
    [ms |-> 125500, fm |-> 500], [ms |-> 3599999, fm |-> 998],
    [ms |-> 3725123, fm |-> 123], [ms |-> 7384999, fm |-> 998],
    [ms |-> 36000000, fm |-> 0] }

SegmentSamples ==
  { [start |-> Sec_0, end |-> Sec_2_3, text |-> <<" ","H","i","\n">>],
    [start |-> Sec_2_3, end |-> Sec_4_5, text |-> <<"y","o"," ">>],
    [start |-> [ms |-> 3725123, fm |-> 123], end |-> [ms |-> 7384999, fm |-> 998],
     text |-> <<"\t">>] }

\* the sequences over S of length at most n
SeqsUpTo(S, n) == UNION { [1..k -> S] : k \in 0..n }

\* the full text of a result: the texts of its segments, concatenated
RECURSIVE FullText(_)
FullText(segments) ==
  IF segments = <<>> THEN <<>> ELSE Head(segments).text \o FullText(Tail(segments))

FormatResults ==
  { [text |-> FullText(segs), segments |-> segs] : segs \in SeqsUpTo(SegmentSamples, MaxSegs) }

\* values of format_type: the four formats, and values that are none of them
FormatTypes ==
  { F_json, F_srt, F_vtt, F_txt, <<"x","m","l">>, <<>>, <<"S","R","T">>,
    <<"t","e","x","t">> }

FormatCalls ==
  { [fn |-> "format_output", result |-> r, format_type |-> t, out |-> None] :
      r \in FormatResults, t \in FormatTypes }

TimestampCalls ==
  { [fn |-> "format_timestamp_srt", seconds |-> x, out |-> None] :
      x \in TimestampSamples }

InitFormat ==
  /\ call \in FormatCalls \cup TimestampCalls
  /\ job_data = [i \in Inv |-> BaseJob]
  /\ environ = FullEnv
  /\ files = {}
  /\ storage = <<>>
  /\ posts = <<>>
  /\ frame = [i \in Inv |-> NewFrame]

FormatOutputCall ==
  /\ call.fn = "format_output"
  /\ call.out = None
  /\ call' = [call EXCEPT !.out = Some(format_output(call.result, call.format_type))]
  /\ UNCHANGED <<job_data, environ, files, storage, posts, frame>>

FormatTimestampCall ==
  /\ call.fn = "format_timestamp_srt"
  /\ call.out = None
  /\ call' = [call EXCEPT !.out = Some(format_timestamp_srt(call.seconds))]
  /\ UNCHANGED <<job_data, environ, files, storage, posts, frame>>

NextFormat ==
  \/ FormatOutputCall
  \/ FormatTimestampCall

SpecFormat == InitFormat /\ [][NextFormat]_vars

\* format_output returned for this format
Returned(format_type) ==
  /\ call.fn = "format_output"
  /\ call.format_type = format_type
  /\ call.out # None

\* t is s without its leading and trailing whitespace
IsTrimOf(t, s) ==
  \E a \in 0..Len(s), b \in 0..Len(s) :
    /\ a + b <= Len(s)
    /\ t = SubSeq(s, a + 1, Len(s) - b)
    /\ \A k \in 1..a : s[k] \in Whitespace
    /\ \A k \in (Len(s) - b + 1)..Len(s) : s[k] \in Whitespace
    /\ t # <<>> => (t[1] \notin Whitespace /\ t[Len(t)] \notin Whitespace)

Trimmed(s) ==
  CHOOSE t \in { SubSeq(s, a, b) : a \in 1..(Len(s) + 1), b \in 0..Len(s) } :
    IsTrimOf(t, s)

\* the lines, each ended by a newline
RECURSIVE Unlines(_)
Unlines(lines) ==
  IF lines = <<>> THEN <<>> ELSE Head(lines) \o <<"\n">> \o Unlines(Tail(lines))

TimestampLine(segment) ==
  format_timestamp_srt(segment.start) \o <<" ","-","-",">"," ">>
    \o format_timestamp_srt(segment.end)

\* the lines of block i of the SRT output
SrtLines(segments, i) ==
  << DecChars(i), TimestampLine(segments[i]), Trimmed(segments[i].text) >>

\* blocks with one empty line between consecutive blocks
RECURSIVE BlankLineSeparated(_)
BlankLineSeparated(blocks) ==
  IF blocks = <<>> THEN <<>>
  ELSE IF Len(blocks) = 1 THEN blocks[1]
  ELSE blocks[1] \o <<"\n">> \o BlankLineSeparated(Tail(blocks))

\* C16: the SRT output has one block per segment, in segment order and
\* numbered 1..n; block i is the index line, the timestamp line and the
\* trimmed text; consecutive blocks are separated by one blank line; no
\* segments give the empty string.
C16_SrtBlocks ==
  Returned(F_srt) =>
    LET segs == call.result.segments
    IN /\ call.out[1] =
            BlankLineSeparated([i \in 1..Len(segs) |-> Unlines(SrtLines(segs, i))])
       /\ segs = <<>> => call.out[1] = <<>>

C16_Witness ==
  /\ Returned(F_srt)
  /\ Len(call.result.segments) = 2
  /\ call.result.segments[1].text # Trimmed(call.result.segments[1].text)

VttHeader == <<"W","E","B","V","T","T","\n">>

\* the lines of block i of the VTT output: the SRT block without its index line
VttLines(segments, i) == Tail(SrtLines(segments, i))

\* a block without its first line
RECURSIVE DropFirstLine(_)
DropFirstLine(block) ==
  IF block = <<>> THEN <<>>
  ELSE IF Head(block) = "\n" THEN Tail(block)
  ELSE DropFirstLine(Tail(block))

\* C17 as stated: the VTT output always is the header line, a blank line,
\* and one block per segment (timestamp line and trimmed text), the blocks
\* separated by a blank line.
C17_VttHeaderThenBlankLine ==
  Returned(F_vtt) =>
    LET segs == call.result.segments
    IN call.out[1] =
         VttHeader \o <<"\n">>
           \o BlankLineSeparated([i \in 1..Len(segs) |-> Unlines(VttLines(segs, i))])

\* C17 amended: the VTT output begins with the header line; with at least
\* one segment a blank line follows and then one block per segment, each the
\* SRT block of the segment without its index line, separated by a blank
\* line; with no segment the output is the header line alone.
C17_VttBlocks ==
  Returned(F_vtt) =>
    LET segs == call.result.segments
        blocks == [i \in 1..Len(segs) |-> Unlines(VttLines(segs, i))]
    IN /\ SubSeq(call.out[1], 1, Len(VttHeader)) = VttHeader
       /\ segs = <<>> => call.out[1] = VttHeader
       /\ segs # <<>> =>
            call.out[1] = VttHeader \o <<"\n">> \o BlankLineSeparated(blocks)
       /\ \A i \in 1..Len(segs) : blocks[i] = DropFirstLine(SrtBlock(i, segs[i]))

C17_Witness ==
  /\ Returned(F_vtt)
  /\ call.result.segments = <<>>

\* the number a string of decimal digits denotes
DigitValue(c) == (CHOOSE k \in 1..10 : Digits[k] = c) - 1

RECURSIVE ParseNat(_)
ParseNat(s) ==
  IF s = <<>> THEN 0
  ELSE 10 * ParseNat(SubSeq(s, 1, Len(s) - 1)) + DigitValue(s[Len(s)])

IsDigits(s) == \A k \in 1..Len(s) : \E d \in 1..10 : Digits[d] = s[k]

\* C18: the timestamp has the form HH:MM:SS,mmm with zero-padded fields,
\* minutes and seconds below 60, milliseconds below 1000, and the fields
\* give back the offset in milliseconds.
C18_TimestampRoundTrip ==
  (call.fn = "format_timestamp_srt" /\ call.out # None) =>
    LET out == call.out[1]
        hh == SubSeq(out, 1, 2)
        mm == SubSeq(out, 4, 5)
        ss == SubSeq(out, 7, 8)
        mmm == SubSeq(out, 10, 12)
    IN /\ Len(out) = 12
       /\ out[3] = ":" /\ out[6] = ":" /\ out[9] = ","
       /\ IsDigits(hh) /\ IsDigits(mm) /\ IsDigits(ss) /\ IsDigits(mmm)
       /\ ParseNat(mm) < 60 /\ ParseNat(ss) < 60 /\ ParseNat(mmm) < 1000
       /\ ParseNat(hh) * 3600000 + ParseNat(mm) * 60000 + ParseNat(ss) * 1000
            + ParseNat(mmm) = call.seconds.ms

\* C19: for a format that is none of json, srt, vtt, txt the output is the
\* TXT output: the full text without leading and trailing whitespace (the
\* empty string for an empty text).
C19_UnknownFormatIsTxt ==
  (/\ call.fn = "format_output"
   /\ call.format_type \notin {F_json, F_srt, F_vtt, F_txt}
   /\ call.out # None) =>
     /\ IsTrimOf(call.out[1], call.result.text)
     /\ call.out[1] = format_output(call.result, F_txt)
     /\ call.result.text = <<>> => call.out[1] = <<>>

C19_Witness ==
  /\ Returned(<<"x","m","l">>)
  /\ call.out[1] # <<>>
  /\ Len(call.out[1]) < Len(call.result.text)

\* ---------------------------------------------------------------------------
\* The error taxonomy
\* ---------------------------------------------------------------------------
IsDownloadMessage(msg) == Len(msg) >= 4 /\ SubSeq(msg, 1, 4) = SubSeq(DownloadMessage("e"), 1, 4)

IsTranscriptionMessage(msg) ==
  Len(msg) >= 2 /\ SubSeq(msg, 1, 2) = SubSeq(TranscriptionMessage("e"), 1, 2)

\* C20: the returned error is the download message exactly when fetching the
\* audio failed, and is the transcription message only when loading the
\* model or the inference raised.
C20_ErrorNamesFailingStage ==
  \A i \in Inv :
    frame[i].pc = "failed" =>
      LET f == frame[i]
          msg == f.ret[1].error
      IN /\ IsDownloadMessage(msg) <=> Raised(f, "requests.get", "downloading")
         /\ IsTranscriptionMessage(msg) =>
              \/ Raised(f, "whisper.load_model", "load_model")
              \/ Raised(f, "model.transcribe", "transcribing")

\* ---------------------------------------------------------------------------
\* The returned result and the bucket
\* ---------------------------------------------------------------------------
\* C21: a run returns success exactly when its upload completed; a run that
\* returns {success: False, error} has stored no object.
C21_ResultAgreesWithStorage ==
  \A i \in Inv :
    LET f == frame[i]
    IN /\ f.pc = "completed" => (f.ret[1].success = TRUE /\ Uploaded(i))
       /\ f.pc = "failed" =>
            /\ f.ret[1].success = FALSE
            /\ ~Uploaded(i)
            /\ JobKey(i) \notin DOMAIN storage

\* ---------------------------------------------------------------------------
\* The storage key of two job descriptors
\* ---------------------------------------------------------------------------
\* ids are arbitrary strings: some contain "/" or "."
KeyUserIds == { <<"a">>, <<"a","/","b">>, <<"a",".","b">> }

KeyTranscriptionIds == { <<"c">>, <<"b","/","c">>, <<"c",".","s","r","t">> }

KeyFormats == { <<"S","R","T">>, <<"s","r","t">>, <<"T","X","T">> }

KeyJobs ==
  { [BaseJob EXCEPT !.userId = u, !.transcriptionId = t, !.format = fmt] :
      u \in KeyUserIds, t \in KeyTranscriptionIds, fmt \in KeyFormats }

KeyCalls ==
  { [fn |-> "result_key", jobs |-> <<a, b>>, out |-> None] :
      a \in KeyJobs, b \in KeyJobs }

InitKey ==
  /\ call \in KeyCalls
  /\ job_data = [i \in Inv |-> BaseJob]
  /\ environ = FullEnv
  /\ files = {}
  /\ storage = <<>>
  /\ posts = <<>>
  /\ frame = [i \in Inv |-> NewFrame]

\* result_key as transcribe computes it from the fields of a payload
KeyOfJob(jd) == ResultKey(jd.userId, jd.transcriptionId, Lower(jd.format))

ResultKeyCall ==
  /\ call.fn = "result_key"
  /\ call.out = None
  /\ call' = [call EXCEPT !.out = Some(<<KeyOfJob(call.jobs[1]), KeyOfJob(call.jobs[2])>>)]
  /\ UNCHANGED <<job_data, environ, files, storage, posts, frame>>

NextKey == ResultKeyCall

SpecKey == InitKey /\ [][NextKey]_vars

\* C22: two job descriptors that differ in userId, transcriptionId or format
\* get different storage keys.
C22_KeyInjective ==
  (call.fn = "result_key" /\ call.out # None) =>
    LET a == call.jobs[1]
        b == call.jobs[2]
    IN (\/ a.userId # b.userId
        \/ a.transcriptionId # b.transcriptionId
        \/ a.format # b.format)
         => call.out[1][1] # call.out[1][2]

====
